---- MODULE Spec2Model ----
(***************************************************************************)
(* A model of the gblink library: the Bloom filter, the Cuckoo filter, the *)
(* HyperLogLog estimator, Stack, Queue, Executor, TokenBucket and          *)
(* LikedList, each as its own state machine over its own variables.  Every *)
(* component has its own specification; the variables of the other         *)
(* components stay at their idle values.                                   *)
(***************************************************************************)
EXTENDS Integers, Sequences, FiniteSets, TLC

VARIABLES
    \* BloomFilter (src/unnamed/part_000)
    bitset,      \* bf.bitset: 0..m-1 -> BOOLEAN
    bfK,         \* bf.k
    bfAdded,     \* history: the items passed to Add so far
    bfLast,      \* history: the last call [op, item, ret]
    \* CuckooFilter (src/cuckoo_filter.go)
    cf,          \* the filter: [Size, HashFn, MaxKicks, BucketArr]
    cfLive,      \* history: items whose Add returned true, not deleted since
    cfLast,      \* history: the last call [op, item, ret, kicks, carried, repeat]
    \* HyperLogLog (src/hyper_log_log.go)
    hll,         \* the instance NewHyperLogLog returned: [m, registers], or Nil
    hllAdded,    \* history: the hash values of the items added so far
    hllLast,     \* history: the last call [op, m, hashVal, err, index, rank]
    \* getRank applied to drawn inputs
    rkHash,      \* the 64-bit hash value, as the set of its set bit positions
    rkM,         \* the precision
    rkRank,      \* getRank's result (0 before the call)
    \* HyperLogLog.Count applied to drawn instances
    cntH,        \* the instance: [m, alphaM, registers]
    cntRet,      \* Count's result [sum, raw, zeros, branch, ret], or Nil
    \* CalculateBloomFilterBitSetSize applied to drawn arguments
    szN,         \* numItems
    szRate,      \* falsePositiveRate, as its decimal text
    szRet,       \* the uint returned, [wrapped, mag], or Nil before the call
    \* Stack (src/stack.go)
    stack,       \* *s, the bottom first
    stHist,      \* history: the values pushed and the pops that removed one
    stLast,      \* history: the last call [op, ret, err, len], len before it
    \* Queue (src/map_test.go)
    queue,       \* *q, the oldest first
    quHist,      \* history: the values pushed and the pops that removed one
    quLast,      \* history: the last call [op, ret, err, before], *q before it
    \* Executor (src/linked_list.go), the calls that start no goroutine
    exCall,      \* the last call [op, outs, maxRetry, duration, backOff]
    exTrace,     \* what the call did, in order: events [ev, arg]
    \* Executor.ExecuteWithTimeout (src/linked_list.go)
    toMain,      \* the caller: "idle" between calls, "select" inside one
    toCalls,     \* per call made: [out, pc, trace], pc the worker goroutine's
    \* TokenBucket (src/unnamed/part_001)
    tb,          \* the bucket: [tokens, capacity, rate, lastTokenTime]
    tbMu,        \* tb.mu: the goroutine holding it, 0 when unlocked
    tbNow,       \* the clock, in ticks since NewTokenBucket
    tbPc,        \* per goroutine: "idle", "locked" or "refilled" in TakeToken
    tbRets,      \* history: how many TakeToken calls returned true (t), false (f)
    \* LikedList (src/linked_list.go)
    list,        \* [nodes, Head, Tail]: the nodes allocated so far, each
                 \* [Value, Next], and two node numbers, 0 standing for nil
    llLast,      \* history: the last call [op, v, n, err, ret, len], len before it
    \* HashTable (src/unnamed/part_004)
    table,       \* t.Table: hash -> list, over the hashes present
    htLive,      \* history: key -> the value of its latest Set, Delete removes
    htLast,      \* history: the last call [op, key, ret, err]
    \* Tree (src/tree.go)
    tree,        \* t.Root: Nil or a node [Key, Value, Left, Right]
    trLive,      \* history: the keys set and not deleted since
    trLast,      \* history: the last call [op, key, before], t.Root before it
    \* LeakyBucket (src/leaky_buket.go)
    lb,          \* the LeakyBucket [flowRate, bucketCapacity, waterLevel, lastLeak]
    lbNow,       \* time.Now(), in seconds
    lbTicker,    \* flowTicker: [C: a tick waits in the channel, on: not stopped]
    lbPc,        \* where the caller and the goroutine of Start are
    lbLoc,       \* their locals in AddWater: [volume, leaked, read, seen]
    lbHist       \* history: [in, out, adds, stops, last]

bloomVars  == <<bitset, bfK, bfAdded, bfLast>>
cuckooVars == <<cf, cfLive, cfLast>>
hllVars    == <<hll, hllAdded, hllLast>>
rankVars   == <<rkHash, rkM, rkRank>>
vars       == <<bloomVars, cuckooVars, hllVars, rankVars,
                cntH, cntRet,
                szN, szRate, szRet,
                stack, stHist, stLast,
                queue, quHist, quLast,
                exCall, exTrace,
                toMain, toCalls,
                tb, tbMu, tbNow, tbPc, tbRets,
                list, llLast,
                table, htLive, htLast,
                tree, trLive, trLast,
                lb, lbNow, lbTicker, lbPc, lbLoc, lbHist>>

----------------------------------------------------------------------------
(* Machine integers.  TLC's integers are 32-bit signed, so a uint32 is kept *)
(* as two 16-bit halves <<hi, lo>> and a uint64 as the set of its set bits. *)

RECURSIVE BitXor(_, _, _)
\* a ^ b on the n low bits
BitXor(a, b, n) ==
    IF n = 0 THEN 0
    ELSE (((a % 2) + (b % 2)) % 2) + 2 * BitXor(a \div 2, b \div 2, n - 1)

\* h ^= b for a uint32 h and a byte b
XorByte(h, b) == <<h[1], (h[2] \div 256) * 256 + BitXor(h[2] % 256, b, 8)>>

\* h * (hiBits * 2^24 + c) mod 2^32, for c < 2^10 and hiBits in {0, 1}
MulPrime(h, c, hiBits) ==
    LET pl == h[2] * c
    IN  <<(h[1] * c + (pl \div 65536) + hiBits * (h[2] % 256) * 256) % 65536,
          pl % 65536>>

\* a uint32 modulo n, for 0 < n < 2^15
Uint32Mod(h, n) == ((h[1] % n) * (65536 % n) + (h[2] % n)) % n

RECURSIVE Fnv32a(_, _)
\* hash/fnv New32a: offset basis 0x811C9DC5, prime 0x01000193, xor then multiply;
\* data is consumed from the front, h is the running state
Fnv32a(h, data) ==
    IF data = <<>> THEN h
    ELSE Fnv32a(MulPrime(XorByte(h, Head(data)), 403, 1), Tail(data))

RECURSIVE Fnv64aLow32(_, _)
\* the low 32 bits of hash/fnv New64a (prime 0x100000001B3: its low 32 bits are
\* 0x1B3, and the low 32 bits of a product depend on the factors' low 32 bits only)
Fnv64aLow32(h, data) ==
    IF data = <<>> THEN h
    ELSE Fnv64aLow32(MulPrime(XorByte(h, Head(data)), 435, 0), Tail(data))

RECURSIVE Fnv64Low32(_, _)
\* the low 32 bits of hash/fnv New64 (FNV-1: multiply, then xor)
Fnv64Low32(h, data) ==
    IF data = <<>> THEN h
    ELSE Fnv64Low32(XorByte(MulPrime(h, 435, 0), Head(data)), Tail(data))

Offset32 == <<33052, 40389>>      \* 0x811C9DC5
Offset64Low32 == <<33826, 8997>>  \* low 32 bits of 0xCBF29CE484222325

----------------------------------------------------------------------------
(* BloomFilter *)

\* the strings of the tests, as their bytes
BloomItems == { <<102, 111, 111>>,    \* "foo"
                <<98, 97, 114>>,      \* "bar"
                <<98, 97, 122>>,      \* "baz"
                <<113, 117, 120>> }   \* "qux"

MaxBitsetSize == 6
MaxHashCount == 3

\* bf.hash(item, seed)
BloomHash(bits, item, seed) ==
    Uint32Mod(Fnv32a(Offset32, item \o <<seed % 256>>), Len(bits))

RECURSIVE AddLoopToggle(_, _, _, _)
\* the loop of Add flipping the bit it probes
AddLoopToggle(bits, k, item, i) ==
    IF i < k
    THEN AddLoopToggle([bits EXCEPT ![BloomHash(bits, item, i) + 1] = ~@],
                       k, item, i + 1)
    ELSE bits

RECURSIVE AddLoop(_, _, _, _)
\* for i := uint(0); i < bf.k; i++ { bf.bitset[bf.hash(item, i)] = true }
AddLoop(bits, k, item, i) ==
    IF i < k
    THEN AddLoop([bits EXCEPT ![BloomHash(bits, item, i) + 1] = TRUE], k, item, i + 1)
    ELSE bits

\* Add with the loop stopping one probe early
BloomAddShort(bits, k, item) == AddLoop(bits, k - 1, item, 0)

\* the bitset after bf.Add(item)
BloomAdd(bits, k, item) == AddLoop(bits, k, item, 0)

RECURSIVE ContainsLoop(_, _, _, _)
ContainsLoop(bits, k, item, i) ==
    IF i < k
    THEN IF ~bits[BloomHash(bits, item, i) + 1] THEN FALSE
         ELSE ContainsLoop(bits, k, item, i + 1)
    ELSE TRUE

\* bf.Contains(item)
BloomContains(bits, k, item) == ContainsLoop(bits, k, item, 0)

\* NewBloomFilter(m, k), for m > 0
BloomInit ==
    /\ \E m \in 1..MaxBitsetSize : bitset = [i \in 1..m |-> FALSE]
    /\ bfK \in 0..MaxHashCount
    /\ bfAdded = {}
    /\ bfLast = [op |-> "New", item |-> <<>>, ret |-> TRUE]

BloomAddCall(item) ==
    /\ bitset' = BloomAdd(bitset, bfK, item)
    /\ bfAdded' = bfAdded \cup {item}
    /\ bfLast' = [op |-> "Add", item |-> item, ret |-> TRUE]
    /\ UNCHANGED bfK

BloomContainsCall(item) ==
    /\ bfLast' = [op |-> "Contains", item |-> item,
                  ret |-> BloomContains(bitset, bfK, item)]
    /\ UNCHANGED <<bitset, bfK, bfAdded>>

BloomIdle ==
    /\ bitset = <<>>
    /\ bfK = 0
    /\ bfAdded = {}
    /\ bfLast = [op |-> "None", item |-> <<>>, ret |-> TRUE]

----------------------------------------------------------------------------
(* CuckooFilter *)

\* a nil *Bucket, and &Bucket{Fingerprint: fp}
Nil == <<>>
Bucket(fp) == <<fp>>

MaxNumKicks == 500
FpSize == 32

\* the strings of the tests, as their bytes
CuckooItems == { <<111, 110, 101>>,             \* "one"
                 <<116, 119, 111>>,             \* "two"
                 <<116, 104, 114, 101, 101>>,   \* "three"
                 <<102, 111, 117, 114>>,        \* "four"
                 <<102, 105, 118, 101>> }       \* "five"

\* the hash.Hash64 values a caller injects: fnv.New64a() and fnv.New64()
HashFns == {"fnv64a", "fnv64"}

MaxSize == 4

\* uint32(HashFn.Sum64()) after Reset and Write(data): Sum64's low 32 bits
Sum64Low32(fn, data) ==
    IF fn = "fnv64a" THEN Fnv64aLow32(Offset64Low32, data)
    ELSE Fnv64Low32(Offset64Low32, data)

\* x & ((1 << n) - 1) for a value x below 2^31
LowBits(x, n) == IF n >= 31 THEN x ELSE x % (2 ^ n)

\* NewCuckooFilter(size, hashFn)
NewCuckooFilter(size, hashFn) ==
    [Size |-> size, HashFn |-> hashFn, MaxKicks |-> MaxNumKicks,
     BucketArr |-> [i \in 1..size |-> Nil]]

\* Sum64Low32 of item followed by the seed byte, tabulated once for every
\* injected hash, item and byte
SeedSum == [fn \in HashFns, item \in CuckooItems, b \in 0..255 |->
               Sum64Low32(fn, item \o <<b>>)] @@ <<>>

\* cf.hash(item, seed); BucketArr[h] of the code is BucketArr[h + 1] here
hash(c, item, seed) == Uint32Mod(SeedSum[c.HashFn, item, seed % 256], c.Size)

\* a fingerprint taken from the hash of seed 1
fingerprintSeed1(c, item) == LowBits(hash(c, item, 1), FpSize)

\* cf.fingerprint(item)
fingerprint(c, item) == LowBits(hash(c, item, 0), FpSize)

\* cf.contains(item, hash1, hash2)
contains(c, item, hash1, hash2) ==
    LET fp == fingerprint(c, item)
    IN  \/ c.BucketArr[hash1 + 1] # Nil /\ c.BucketArr[hash1 + 1][1] = fp
        \/ c.BucketArr[hash2 + 1] # Nil /\ c.BucketArr[hash2 + 1][1] = fp

\* insertItemIntoBucket allocating &Bucket{}, the fingerprint left unset
insertItemIntoBucketZero(c, fp, h) ==
    IF c.BucketArr[h + 1] = Nil
    THEN [ok |-> TRUE, cf |-> [c EXCEPT !.BucketArr[h + 1] = Bucket(0)]]
    ELSE IF c.BucketArr[h + 1][1] = fp
         THEN [ok |-> TRUE, cf |-> c]
         ELSE [ok |-> FALSE, cf |-> c]

\* cf.insertItemIntoBucket(fingerprint, hash): the result and the filter after it
insertItemIntoBucket(c, fp, h) ==
    IF c.BucketArr[h + 1] = Nil
    THEN [ok |-> TRUE, cf |-> [c EXCEPT !.BucketArr[h + 1] = Bucket(fp)]]
    ELSE IF c.BucketArr[h + 1][1] = fp
         THEN [ok |-> TRUE, cf |-> c]
         ELSE [ok |-> FALSE, cf |-> c]

\* the loop condition with <= for <
KickAgainInclusive(c, i) == i <= c.MaxKicks

\* the loop condition of insertItem
KickAgain(c, i) == i < c.MaxKicks

\* a pass of the loop whose swap is made in bucket hash1
insertPassSwapHash1(st, item, hash1, hash2) ==
    IF st.done THEN st
    ELSE IF ~KickAgain(st.cf, st.i) THEN [st EXCEPT !.done = TRUE, !.ok = FALSE]
    ELSE LET r1 == insertItemIntoBucket(st.cf, st.fp, hash1)
             r2 == insertItemIntoBucket(st.cf, st.fp, hash2)
         IN  IF r1.ok THEN [st EXCEPT !.cf = r1.cf, !.done = TRUE, !.ok = TRUE]
             ELSE IF r2.ok THEN [st EXCEPT !.cf = r2.cf, !.done = TRUE, !.ok = TRUE]
             ELSE [st EXCEPT !.cf.BucketArr[hash1 + 1] = Bucket(st.fp),
                             !.fp = st.cf.BucketArr[hash1 + 1][1],
                             !.i = st.i + 1]

\* one pass of the loop of insertItem on the loop state st = [cf, fp, i, done,
\* ok]: fp is the fingerprint carried, i the loop counter (the swaps done so
\* far), done says that the function has returned, ok what it returned.  The
\* swap reads BucketArr[hash].Fingerprint, which panics on a nil bucket: here,
\* an error of the evaluation.
insertPass(st, item, hash1, hash2) ==
    IF st.done THEN st
    ELSE IF ~KickAgain(st.cf, st.i) THEN [st EXCEPT !.done = TRUE, !.ok = FALSE]
    ELSE LET r1 == insertItemIntoBucket(st.cf, st.fp, hash1)
             r2 == insertItemIntoBucket(st.cf, st.fp, hash2)
             h  == hash(st.cf, item, hash1)
         IN  IF r1.ok THEN [st EXCEPT !.cf = r1.cf, !.done = TRUE, !.ok = TRUE]
             ELSE IF r2.ok THEN [st EXCEPT !.cf = r2.cf, !.done = TRUE, !.ok = TRUE]
             ELSE [st EXCEPT !.cf.BucketArr[h + 1] = Bucket(st.fp),
                             !.fp = st.cf.BucketArr[h + 1][1],
                             !.i = st.i + 1]

RECURSIVE insertLoop(_, _, _, _, _)
\* n passes of the loop in a row (none once the function has returned); the
\* run is cut in halves so that the evaluation stays shallow
insertLoop(st, item, hash1, hash2, n) ==
    IF st.done \/ n = 0 THEN st
    ELSE IF n = 1 THEN insertPass(st, item, hash1, hash2)
    ELSE LET mid == insertLoop(st, item, hash1, hash2, n \div 2)
         IN  insertLoop(mid, item, hash1, hash2, n - (n \div 2))

\* cf.insertItem(item, hash1, hash2): MaxKicks passes and the last test of the
\* loop condition end the loop
insertItem(c, item, hash1, hash2) ==
    LET st == insertLoop([cf |-> c, fp |-> fingerprint(c, item), i |-> 0,
                          done |-> FALSE, ok |-> FALSE],
                         item, hash1, hash2, c.MaxKicks + 1)
    IN  [ok |-> st.ok, cf |-> st.cf, kicks |-> st.i, carried |-> st.fp]

\* insert reporting an item that is already present as not inserted
insertRejectDuplicate(c, item, isInsert) ==
    LET hash1 == hash(c, item, 0)
        hash2 == hash(c, item, hash1)
        fp    == fingerprint(c, item)
    IN  IF contains(c, item, hash1, hash2)
        THEN [ok |-> FALSE, cf |-> c, kicks |-> 0, carried |-> fp]
        ELSE IF isInsert THEN insertItem(c, item, hash1, hash2)
        ELSE [ok |-> FALSE, cf |-> c, kicks |-> 0, carried |-> fp]

\* cf.insert(item, isInsert)
insert(c, item, isInsert) ==
    LET hash1 == hash(c, item, 0)
        hash2 == hash(c, item, hash1)
        fp    == fingerprint(c, item)
    IN  IF contains(c, item, hash1, hash2)
        THEN [ok |-> TRUE, cf |-> c, kicks |-> 0, carried |-> fp]
        ELSE IF isInsert THEN insertItem(c, item, hash1, hash2)
        ELSE [ok |-> FALSE, cf |-> c, kicks |-> 0, carried |-> fp]

\* cf.Add(item)
Add(c, item) == insert(c, item, TRUE)

\* cf.Contains(item)
Contains(c, item) ==
    LET hash1 == hash(c, item, 0)
        hash2 == hash(c, item, hash1)
    IN  contains(c, item, hash1, hash2)

\* Delete clearing bucket hash2 where bucket hash1 matched
DeleteWrongBucket(c, item) ==
    LET hash1 == hash(c, item, 0)
        hash2 == hash(c, item, hash1)
        fp    == fingerprint(c, item)
    IN  IF c.BucketArr[hash1 + 1] # Nil /\ c.BucketArr[hash1 + 1][1] = fp
        THEN [ok |-> TRUE, cf |-> [c EXCEPT !.BucketArr[hash2 + 1] = Nil]]
        ELSE IF c.BucketArr[hash2 + 1] # Nil /\ c.BucketArr[hash2 + 1][1] = fp
        THEN [ok |-> TRUE, cf |-> [c EXCEPT !.BucketArr[hash2 + 1] = Nil]]
        ELSE [ok |-> FALSE, cf |-> c]

\* Delete clearing bucket hash2 whatever fingerprint it holds
DeleteAnyFingerprint(c, item) ==
    LET hash1 == hash(c, item, 0)
        hash2 == hash(c, item, hash1)
        fp    == fingerprint(c, item)
    IN  IF c.BucketArr[hash1 + 1] # Nil /\ c.BucketArr[hash1 + 1][1] = fp
        THEN [ok |-> TRUE, cf |-> [c EXCEPT !.BucketArr[hash1 + 1] = Nil]]
        ELSE IF c.BucketArr[hash2 + 1] # Nil
        THEN [ok |-> TRUE, cf |-> [c EXCEPT !.BucketArr[hash2 + 1] = Nil]]
        ELSE [ok |-> FALSE, cf |-> c]

\* Delete zeroing the fingerprint of the bucket in place of freeing the bucket
DeleteKeepBucket(c, item) ==
    LET hash1 == hash(c, item, 0)
        hash2 == hash(c, item, hash1)
        fp    == fingerprint(c, item)
    IN  IF c.BucketArr[hash1 + 1] # Nil /\ c.BucketArr[hash1 + 1][1] = fp
        THEN [ok |-> TRUE, cf |-> [c EXCEPT !.BucketArr[hash1 + 1] = Bucket(0)]]
        ELSE IF c.BucketArr[hash2 + 1] # Nil /\ c.BucketArr[hash2 + 1][1] = fp
        THEN [ok |-> TRUE, cf |-> [c EXCEPT !.BucketArr[hash2 + 1] = Bucket(0)]]
        ELSE [ok |-> FALSE, cf |-> c]

\* cf.Delete(item): the result and the filter after it
Delete(c, item) ==
    LET hash1 == hash(c, item, 0)
        hash2 == hash(c, item, hash1)
        fp    == fingerprint(c, item)
    IN  IF c.BucketArr[hash1 + 1] # Nil /\ c.BucketArr[hash1 + 1][1] = fp
        THEN [ok |-> TRUE, cf |-> [c EXCEPT !.BucketArr[hash1 + 1] = Nil]]
        ELSE IF c.BucketArr[hash2 + 1] # Nil /\ c.BucketArr[hash2 + 1][1] = fp
        THEN [ok |-> TRUE, cf |-> [c EXCEPT !.BucketArr[hash2 + 1] = Nil]]
        ELSE [ok |-> FALSE, cf |-> c]

\* the last call: repeat says that the call before it was the same operation
\* on the same item
Call(op, item, ret, kicks, carried) ==
    [op |-> op, item |-> item, ret |-> ret, kicks |-> kicks, carried |-> carried,
     repeat |-> cfLast.op = op /\ cfLast.item = item]

NoCall == [op |-> "New", item |-> <<>>, ret |-> TRUE, kicks |-> 0, carried |-> 0,
           repeat |-> FALSE]

\* cf := NewCuckooFilter(size, hashFn), for size > 0
CuckooInit ==
    /\ \E size \in 1..MaxSize, fn \in HashFns : cf = NewCuckooFilter(size, fn)
    /\ cfLive = {}
    /\ cfLast = NoCall

CuckooAddCall(item) ==
    LET r == Add(cf, item)
    IN  /\ cf' = r.cf
        /\ cfLive' = IF r.ok THEN cfLive \cup {item} ELSE cfLive
        /\ cfLast' = Call("Add", item, r.ok, r.kicks, r.carried)

CuckooContainsCall(item) ==
    /\ cfLast' = Call("Contains", item, Contains(cf, item), 0, 0)
    /\ UNCHANGED <<cf, cfLive>>

CuckooDeleteCall(item) ==
    LET r == Delete(cf, item)
    IN  /\ cf' = r.cf
        /\ cfLive' = cfLive \ {item}
        /\ cfLast' = Call("Delete", item, r.ok, 0, 0)

MaxKickSize == 3

\* a filter whose exported BucketArr holds any contents: every bucket nil or
\* one of the fingerprints an item can have at this size
KickInit ==
    /\ \E size \in 1..MaxKickSize, fn \in HashFns :
          \E arr \in [1..size -> {Nil} \cup {Bucket(f) : f \in 0..(size - 1)}] :
             cf = [NewCuckooFilter(size, fn) EXCEPT !.BucketArr = arr]
    /\ cfLive = {}
    /\ cfLast = NoCall

\* one Add on the drawn filter
KickAddCall(item) ==
    /\ cfLast.op = "New"
    /\ CuckooAddCall(item)

CuckooIdle ==
    /\ cf = <<>>
    /\ cfLive = {}
    /\ cfLast = <<>>

----------------------------------------------------------------------------
(* HyperLogLog.  A uint64 is the set of the positions of its set bits, bit 0 *)
(* the least significant.                                                   *)

MinPrecision == 4
MaxPrecision == 16
HashBits == 64

\* the precisions callers try
MaxPrecisionArg == 18

\* the 64-bit values the injected hasher returns for the items of a run
HllHashVals == { {},             \* 0: register 0, no bit set above the index
                 {0, 63},        \* register 1, only the top bit set above it
                 {0, 20},        \* register 1
                 {20},           \* register 0
                 {1, 3, 16, 40}, \* register 10
                 {1, 3, 17} }    \* register 10

RECURSIVE BitsValue(_)
\* the number a set of bit positions (all below 31) stands for
BitsValue(S) ==
    IF S = {} THEN 0
    ELSE LET j == CHOOSE x \in S : TRUE
         IN  2 ^ j + BitsValue(S \ {j})

\* v >> n
Shr(v, n) == {j - n : j \in {x \in v : x >= n}}

\* v & ((1 << n) - 1)
LowMask(v, n) == {j \in v : j < n}

\* the range test with <= for <
PrecisionOutOfRangeInclusive(m) == m <= MinPrecision \/ m > MaxPrecision

\* m < 4 || m > 16
PrecisionOutOfRange(m) == m < MinPrecision \/ m > MaxPrecision

\* NewHyperLogLog(m, hasher): the instance (Nil with an error) and whether an
\* error is returned
NewHyperLogLog(m) ==
    IF PrecisionOutOfRange(m)
    THEN [h |-> Nil, err |-> TRUE]
    ELSE [h |-> [m |-> m, registers |-> [i \in 1..(2 ^ m) |-> 0]], err |-> FALSE]

RECURSIVE getRankLoop(_, _, _, _)
\* for (hashVal&1) == 0 && rank <= p { rank++; hashVal >>= 1 }, where hashVal
\* is the value passed in and shifted the number of times the loop has shifted it
getRankLoop(hashVal, p, rank, shifted) ==
    IF 0 \notin Shr(hashVal, shifted) /\ rank <= p
    THEN getRankLoop(hashVal, p, rank + 1, shifted + 1)
    ELSE rank

\* getRank counting from 0
getRankFromZero(hashVal, p) == getRankLoop(hashVal, p, 0, 0)

\* getRank(hashVal, p)
getRank(hashVal, p) == getRankLoop(hashVal, p, 1, 0)

\* the register index Add computes: hashVal & ((1 << h.m) - 1)
AddIndex(hashVal, m) == BitsValue(LowMask(hashVal, m))

\* the rank Add computes: getRank(hashVal>>h.m, 64-int(h.m))
AddRank(hashVal, m) == getRank(Shr(hashVal, m), HashBits - m)

\* Add writing the register whatever it holds
RankWinsAlways(rank, reg) == TRUE

\* whether Add writes the register
RankWins(rank, reg) == rank > reg

\* h.Add(item) for an item whose hash is hashVal: the instance after it;
\* registers[index] of the code is registers[index + 1] here
HllAdd(h, hashVal) ==
    LET index == AddIndex(hashVal, h.m)
        rank  == AddRank(hashVal, h.m)
    IN  IF RankWins(rank, h.registers[index + 1])
        THEN [h EXCEPT !.registers[index + 1] = rank % 256]
        ELSE h

HllNoCall == [op |-> "None", m |-> 0, hashVal |-> {}, err |-> FALSE,
              index |-> 0, rank |-> 0]

\* before h, err := NewHyperLogLog(...)
HllInit ==
    /\ hll = Nil
    /\ hllAdded = {}
    /\ hllLast = HllNoCall

HllNewCall(m) ==
    /\ hllLast.op = "None"
    /\ LET r == NewHyperLogLog(m)
       IN  /\ hll' = r.h
           /\ hllLast' = [HllNoCall EXCEPT !.op = "New", !.m = m, !.err = r.err]
    /\ UNCHANGED hllAdded

HllAddCall(hashVal) ==
    /\ hll # Nil
    /\ hll' = HllAdd(hll, hashVal)
    /\ hllAdded' = hllAdded \cup {hashVal}
    /\ hllLast' = [op |-> "Add", m |-> hll.m, hashVal |-> hashVal, err |-> FALSE,
                   index |-> AddIndex(hashVal, hll.m),
                   rank |-> AddRank(hashVal, hll.m)]

HllIdle ==
    /\ hll = <<>>
    /\ hllAdded = {}
    /\ hllLast = <<>>

----------------------------------------------------------------------------
(* getRank, as Add calls it, on drawn hash values and precisions *)

\* hash values with no, one or two set bits
RankHashVals ==
    {{}} \cup {{j} : j \in 0..63} \cup {{j, k} : j \in 0..63, k \in {0, 40, 63}}

RankInit ==
    /\ rkHash \in RankHashVals
    /\ rkM \in MinPrecision..MaxPrecision
    /\ rkRank = 0

RankCall ==
    /\ rkRank = 0
    /\ rkRank' = AddRank(rkHash, rkM)
    /\ UNCHANGED <<rkHash, rkM>>

RankIdle ==
    /\ rkHash = {}
    /\ rkM = 0
    /\ rkRank = 0

----------------------------------------------------------------------------
(* HyperLogLog.Count.  A float64 is modelled by the exact rational it stands *)
(* for, kept in lowest terms as [n, d]; the rounding of the float operations *)
(* is not modelled.                                                          *)

RECURSIVE Gcd(_, _)
Gcd(a, b) == IF b = 0 THEN a ELSE Gcd(b, a % b)

\* the float64 n/d
Rat(n, d) == LET g == Gcd(n, d) IN [n |-> n \div g, d |-> d \div g]

\* a + b
RatAdd(a, b) == Rat(a.n * b.d + b.n * a.d, a.d * b.d)

\* a * b
RatMul(a, b) ==
    LET g1 == Gcd(a.n, b.d)
        g2 == Gcd(b.n, a.d)
    IN  [n |-> (a.n \div g1) * (b.n \div g2), d |-> (a.d \div g2) * (b.d \div g1)]

\* a / b
RatDiv(a, b) == RatMul(a, [n |-> b.d, d |-> b.n])

RECURSIVE RatLess(_, _)
\* a < b, by the integer parts and then the remainders
RatLess(a, b) ==
    LET qa == a.n \div a.d
        qb == b.n \div b.d
        ra == a.n % a.d
        rb == b.n % b.d
    IN  IF qa # qb THEN qa < qb
        ELSE IF rb = 0 THEN FALSE
        ELSE IF ra = 0 THEN TRUE
        ELSE RatLess([n |-> b.d, d |-> rb], [n |-> a.d, d |-> ra])

\* math.Pow(2, -float64(val))
Pow2Neg(val) == [n |-> 1, d |-> 2 ^ val]

\* the precisions of the instances Count is applied to
MaxCountPrecision == 4

\* the register values of the instances Count is applied to
CountRegisterVals == {0, 1, 7}

\* getAlpha(m)
getAlpha(m) ==
    CASE m = 4 -> Rat(673, 1000)
      [] m = 5 -> Rat(697, 1000)
      [] m = 6 -> Rat(709, 1000)
      [] OTHER -> RatDiv(Rat(7213, 10000),
                         RatAdd(Rat(1, 1), RatDiv(Rat(1079, 1000), Rat(2 ^ m, 1))))

RECURSIVE SumLoop(_, _, _)
\* for _, val := range h.registers { sum += math.Pow(2, -float64(val)) }
SumLoop(registers, i, sum) ==
    IF i > Len(registers) THEN sum
    ELSE SumLoop(registers, i + 1, RatAdd(sum, Pow2Neg(registers[i])))

\* the raw estimate with the register count squared on top of one sum
RawEstimateStandard(alphaM, len, sum) ==
    RatDiv(RatMul(alphaM, Rat(len * len, 1)), sum)

\* h.alphaM * math.Pow(float64(1)/sum, 2)
RawEstimate(alphaM, len, sum) ==
    LET inv == RatDiv(Rat(1, 1), sum)
    IN  RatMul(alphaM, RatMul(inv, inv))

\* estimate > float64(1<<32)/float64(30), as estimate/2 > 2^30/15
LargeRange(estimate) ==
    RatLess(Rat(2 ^ 30, 15),
            IF estimate.n % 2 = 0 THEN Rat(estimate.n \div 2, estimate.d)
            ELSE [n |-> estimate.n, d |-> 2 * estimate.d])

\* h.Count(): the sum, the raw estimate, the zero registers counted, the branch
\* taken and the value returned.  The value is uint64(estimate) when the raw
\* estimate is returned; the two corrections take a logarithm and their value
\* is left as the expression over len and zeros that the code evaluates.
Count(h) ==
    LET len   == Len(h.registers)
        sum   == SumLoop(h.registers, 1, Rat(0, 1))
        raw   == RawEstimate(h.alphaM, len, sum)
        small == ~RatLess(Rat(5 * len, 2), raw)
        zeros == Cardinality({i \in 1..len : h.registers[i] = 0})
    IN  IF small /\ zeros # 0
        THEN [sum |-> sum, raw |-> raw, zeros |-> zeros, branch |-> "linear",
              ret |-> [kind |-> "len*ln(len/zeros)", val |-> 0]]
        ELSE IF ~small /\ LargeRange(raw)
        THEN [sum |-> sum, raw |-> raw, zeros |-> 0, branch |-> "large",
              ret |-> [kind |-> "-2^64*ln(1-raw/2^64)", val |-> 0]]
        ELSE [sum |-> sum, raw |-> raw, zeros |-> IF small THEN zeros ELSE 0,
              branch |-> "raw",
              ret |-> [kind |-> "uint64", val |-> raw.n \div raw.d]]

\* register arrays in three runs of equal values; Add reaches each of them
CountRegisters(p) ==
    {[i \in 1..(2 ^ p) |-> IF i <= a THEN x ELSE IF i <= b THEN y ELSE z] :
        a \in 0..(2 ^ p), b \in 0..(2 ^ p), x \in CountRegisterVals,
        y \in CountRegisterVals, z \in CountRegisterVals}

CountCall ==
    /\ cntRet = Nil
    /\ cntRet' = Count(cntH)
    /\ UNCHANGED cntH

CountIdle ==
    /\ cntH = <<>>
    /\ cntRet = <<>>

----------------------------------------------------------------------------
(* CalculateBloomFilterBitSetSize.  Floats are kept in millionths; a uint64  *)
(* result is [wrapped, mag]: the value mag, or 2^64 - mag when wrapped.     *)

\* the item counts callers pass
MaxNumItems == 100

\* math.Log(falsePositiveRate), in millionths, for the rates callers pass
LnMicro == [r \in {"0.9", "0.5", "0.1", "0.01", "0.001", "0.0001"} |->
              CASE r = "0.9"    -> -105361
                [] r = "0.5"    -> -693147
                [] r = "0.1"    -> -2302585
                [] r = "0.01"   -> -4605170
                [] r = "0.001"  -> -6907755
                [] r = "0.0001" -> -9210340]

\* math.Pow(math.Log(2), 2), in millionths
Ln2SqMicro == 480453

\* what uint(f) gives for a negative float f: the amd64 build converts through
\* int64 and yields 2^64 - |trunc(f)|, the arm64 build saturates at 0
Builds == {"wrap", "saturate"}

\* uint(f) for the float whose truncation has the sign neg and the magnitude mag
Uint(neg, mag, build) ==
    IF ~neg \/ mag = 0 THEN [wrapped |-> FALSE, mag |-> mag]
    ELSE IF build = "wrap" THEN [wrapped |-> TRUE, mag |-> mag]
    ELSE [wrapped |-> FALSE, mag |-> 0]

\* uint(float64(numItems) * math.Log(falsePositiveRate) / math.Pow(math.Log(2), 2))
CalculateBloomFilterBitSetSize(numItems, falsePositiveRate, build) ==
    LET num == numItems * LnMicro[falsePositiveRate]
    IN  IF num < 0
        THEN Uint(TRUE, (-num) \div Ln2SqMicro, build)
        ELSE Uint(FALSE, num \div Ln2SqMicro, build)

SizeCall(build) ==
    /\ szRet = Nil
    /\ szRet' = CalculateBloomFilterBitSetSize(szN, szRate, build)
    /\ UNCHANGED <<szN, szRate>>

SizeIdle ==
    /\ szN = 0
    /\ szRate = ""
    /\ szRet = <<>>

----------------------------------------------------------------------------
(* Stack and Queue of int.  A call returns [s, ret, err]: the slice after   *)
(* it, the value returned (0, the zero value, with an error) and the error. *)

\* the values pushed
Values == {1, 2}

\* the pushes and successful pops of a run
MaxOps == 5

\* s.Push(v)
StackPush(s, v) == Append(s, v)

\* Pop taking the bottom of the stack
StackPopBottom(s) ==
    IF Len(s) = 0 THEN [s |-> s, ret |-> 0, err |-> "StackError"]
    ELSE [s |-> Tail(s), ret |-> s[1], err |-> "nil"]

\* s.Pop()
StackPop(s) ==
    IF Len(s) = 0 THEN [s |-> s, ret |-> 0, err |-> "StackError"]
    ELSE [s |-> SubSeq(s, 1, Len(s) - 1), ret |-> s[Len(s)], err |-> "nil"]

\* s.Peek()
StackPeek(s) ==
    IF Len(s) = 0 THEN [s |-> s, ret |-> 0, err |-> "StackError"]
    ELSE [s |-> s, ret |-> s[Len(s)], err |-> "nil"]

\* q.Push(v)
QueuePush(q, v) == Append(q, v)

\* Pop taking the newest value
QueuePopNewest(q) ==
    IF Len(q) = 0 THEN [s |-> q, ret |-> 0, err |-> "QueueError"]
    ELSE [s |-> SubSeq(q, 1, Len(q) - 1), ret |-> q[Len(q)], err |-> "nil"]

\* q.Pop()
QueuePop(q) ==
    IF Len(q) = 0 THEN [s |-> q, ret |-> 0, err |-> "QueueError"]
    ELSE [s |-> SubSeq(q, 2, Len(q)), ret |-> q[1], err |-> "nil"]

\* q.Peek()
QueuePeek(q) ==
    IF Len(q) = 0 THEN [s |-> q, ret |-> 0, err |-> "QueueError"]
    ELSE [s |-> q, ret |-> q[1], err |-> "nil"]

----------------------------------------------------------------------------
(* Executor.  fn is given by the results [value, err] of its successive     *)
(* invocations, err = 0 standing for nil.  A call is modelled by the trace  *)
(* of what it does: "fn" (arg: the invocation number), "sleep" (arg: the    *)
(* duration), "onError" (arg: the error) and "onSuccess" (arg: the value).  *)

\* what an invocation of fn returns
Outcomes == {[value |-> 1, err |-> 0], [value |-> 2, err |-> 0],
             [value |-> -1, err |-> 7]}

\* the error of the timeout branch: ExecutorError{"ExecutorError: timeout"}
TimeoutError == 9

\* the maxRetry arguments callers pass
MaxRetryArg == 2

\* the durations callers pass
Durations == {1, 2}

Event(ev, arg) == [ev |-> ev, arg |-> arg]

\* e.Execute(fn, onSuccess, onError)
Execute(out) ==
    <<Event("fn", 1)>>
    \o (IF out.err # 0 THEN <<Event("onError", out.err)>> ELSE <<>>)
    \o <<Event("onSuccess", out.value)>>

RECURSIVE ExecuteRetry(_, _, _, _)
\* e.ExecuteRetry(fn, onSuccess, onError, duration, maxRetry), fn about to be
\* invoked for the i-th time
ExecuteRetry(outs, i, duration, maxRetry) ==
    <<Event("fn", i)>>
    \o (IF outs[i].err # 0
        THEN IF maxRetry > 0
             THEN <<Event("sleep", duration)>>
                  \o ExecuteRetry(outs, i + 1, duration, maxRetry - 1)
             ELSE <<Event("onError", outs[i].err)>>
        ELSE <<>>)
    \o <<Event("onSuccess", outs[i].value)>>

RECURSIVE ExecuteRetryBackOff(_, _, _, _, _)
\* e.ExecuteRetryBackOff(fn, onSuccess, onError, duration, maxRetry,
\* backOffDuration), fn about to be invoked for the i-th time
ExecuteRetryBackOff(outs, i, duration, maxRetry, backOffDuration) ==
    <<Event("fn", i)>>
    \o (IF outs[i].err # 0
        THEN IF maxRetry > 0
             THEN <<Event("sleep", duration)>>
                  \o ExecuteRetryBackOff(outs, i + 1, duration + backOffDuration,
                                         maxRetry - 1, backOffDuration)
             ELSE <<Event("onError", outs[i].err)>>
        ELSE <<>>)
    \o <<Event("onSuccess", outs[i].value)>>

\* the calls of ExecuteWithTimeout in a run
MaxCalls == 2

\* e.ExecuteWithTimeout(fn, onSuccess, onError, duration) up to its select:
\* done is made and the worker goroutine started
ToCall(out) ==
    /\ toMain = "idle"
    /\ Len(toCalls) < MaxCalls
    /\ toCalls' = Append(toCalls, [out |-> out, pc |-> "fn", trace |-> <<>>])
    /\ toMain' = "select"

\* the worker of call c: value, err := fn()
ToFn(c) ==
    /\ toCalls[c].pc = "fn"
    /\ toCalls' = [toCalls EXCEPT
                     ![c].trace = Append(@, Event("fn", 1)),
                     ![c].pc = IF toCalls[c].out.err # 0 THEN "onError"
                               ELSE "onSuccess"]
    /\ UNCHANGED toMain

\* the worker of call c: onError(err)
ToOnError(c) ==
    /\ toCalls[c].pc = "onError"
    /\ toCalls' = [toCalls EXCEPT
                     ![c].trace = Append(@, Event("onError", toCalls[c].out.err)),
                     ![c].pc = "onSuccess"]
    /\ UNCHANGED toMain

\* the worker of call c: onSuccess(value), and on to done <- true
ToOnSuccess(c) ==
    /\ toCalls[c].pc = "onSuccess"
    /\ toCalls' = [toCalls EXCEPT
                     ![c].trace = Append(@, Event("onSuccess", toCalls[c].out.value)),
                     ![c].pc = "send"]
    /\ UNCHANGED toMain

\* case <-done: the worker's send on the unbuffered channel meets the caller's
\* receive; the caller returns and the worker ends
ToDone ==
    /\ toMain = "select"
    /\ toCalls[Len(toCalls)].pc = "send"
    /\ toCalls' = [toCalls EXCEPT ![Len(toCalls)].pc = "exit"]
    /\ toMain' = "idle"

\* case <-time.After(duration): the caller runs onError(timeout) and returns
ToTimeout ==
    /\ toMain = "select"
    /\ toCalls' = [toCalls EXCEPT
                     ![Len(toCalls)].trace = Append(@, Event("onError", TimeoutError))]
    /\ toMain' = "idle"

----------------------------------------------------------------------------
(* TokenBucket.  Time is counted in ticks; the bounds keep tokens far from  *)
(* the width of uint64.                                                     *)

MaxCapacity == 2
MaxRate == 2
\* how far the clock runs
MaxTime == 3
\* the calls of TakeToken in a run
MaxTakes == 4

\* the goroutines calling TakeToken
Goroutines == {1, 2}

\* the refill without the cap at capacity
RefillNoCap(b, now) ==
    [b EXCEPT !.tokens = b.tokens + ((now - b.lastTokenTime) \div b.rate)]

\* TakeToken, lines 132-139: elapsedTime := time.Since(tb.lastTokenTime);
\* tb.tokens += elapsed / rate; capped at tb.capacity
Refill(b, now) ==
    LET numTokensToAdd == (now - b.lastTokenTime) \div b.rate
        tokens == b.tokens + numTokensToAdd
    IN  [b EXCEPT !.tokens = IF tokens > b.capacity THEN b.capacity ELSE tokens]

\* TakeToken, lines 142-147: the bucket after it and the value returned
Take(b, now) ==
    IF b.tokens > 0
    THEN [b |-> [b EXCEPT !.tokens = b.tokens - 1, !.lastTokenTime = now],
          ret |-> TRUE]
    ELSE [b |-> b, ret |-> FALSE]

----------------------------------------------------------------------------
(* LikedList of int.  A pointer is the number of a node in list.nodes, 0 for *)
(* nil; removed nodes stay allocated, as they do until collected.            *)

\* the nodes allocated in a run
MaxNodes == 4

RECURSIVE Walk(_, _, _)
\* node = node.Next, steps times, from node; 0 when it reaches nil and -1 when
\* it steps from nil (a nil dereference)
Walk(l, node, steps) ==
    IF steps = 0 THEN node
    ELSE IF node <= 0 THEN -1
    ELSE Walk(l, l.nodes[node].Next, steps - 1)

RECURSIVE LLLen(_, _)
\* l.Len(), counting from node
LLLen(l, node) == IF node = 0 THEN 0 ELSE 1 + LLLen(l, l.nodes[node].Next)

\* l.Append(value)
LLAppend(l, value) ==
    LET node == Len(l.nodes) + 1
        nodes == Append(l.nodes, [Value |-> value, Next |-> 0])
    IN  IF l.Head = 0
        THEN [nodes |-> nodes, Head |-> node, Tail |-> node]
        ELSE [nodes |-> [nodes EXCEPT ![l.Tail].Next = node],
              Head |-> l.Head, Tail |-> node]

\* l.Prepend(value)
LLPrepend(l, value) ==
    LET node == Len(l.nodes) + 1
    IN  IF l.Head = 0
        THEN [nodes |-> Append(l.nodes, [Value |-> value, Next |-> 0]),
              Head |-> node, Tail |-> node]
        ELSE [nodes |-> Append(l.nodes, [Value |-> value, Next |-> l.Head]),
              Head |-> node, Tail |-> l.Tail]

\* l.Insert(n, value): the list after it and the error; "panic" when the walk
\* to the n-th element dereferences nil
LLInsert(l, n, value) ==
    IF n < 0 THEN [l |-> l, err |-> "LikedListError"]
    ELSE IF n = 0 THEN [l |-> LLPrepend(l, value), err |-> "nil"]
    ELSE IF n = LLLen(l, l.Head) THEN [l |-> LLAppend(l, value), err |-> "nil"]
    ELSE LET node == Walk(l, l.Head, n - 1)
             newNode == Len(l.nodes) + 1
         IN  IF node <= 0 THEN [l |-> l, err |-> "panic"]
             ELSE [l |-> [l EXCEPT !.nodes =
                             [Append(l.nodes, [Value |-> value,
                                               Next |-> l.nodes[node].Next])
                                 EXCEPT ![node].Next = newNode]],
                   err |-> "nil"]

\* l.Remove(n): the list after it, the value returned and the error
LLRemove(l, n) ==
    IF n < 0 \/ n >= LLLen(l, l.Head)
    THEN [l |-> l, ret |-> 0, err |-> "LikedListError"]
    ELSE IF n = 0
    THEN [l |-> [l EXCEPT !.Head = l.nodes[l.Head].Next],
          ret |-> l.nodes[l.Head].Value, err |-> "nil"]
    ELSE LET node == Walk(l, l.Head, n - 1)
             next == l.nodes[node].Next
         IN  [l |-> [l EXCEPT !.nodes[node].Next = l.nodes[next].Next],
              ret |-> l.nodes[next].Value, err |-> "nil"]

\* l.Get(n): the value returned and the error
LLGet(l, n) ==
    IF n < 0 \/ n >= LLLen(l, l.Head)
    THEN [ret |-> 0, err |-> "LikedListError"]
    ELSE [ret |-> l.nodes[Walk(l, l.Head, n)].Value, err |-> "nil"]

----------------------------------------------------------------------------
(* HashTable of string keys and int values, hashed with fnv.New64a().  A    *)
(* hash is kept by its low 32 bits, which differ for the keys used.         *)

\* the keys of the calls: "one" and "two"
TableKeys == {<<111, 110, 101>>, <<116, 119, 111>>}

\* the values set under one hash before a Delete
MaxChain == 2

\* t.Hasher.Reset(); t.Hasher.Write([]byte(fmt.Sprintf("%v", key))); Sum64()
TableHash(key) == Sum64Low32("fnv64a", key)

\* t.Get(key)
TableGet(t, key) ==
    LET h == TableHash(key)
    IN  IF h \notin DOMAIN t THEN [ret |-> 0, err |-> "HashTableError"]
        ELSE [ret |-> t[h].nodes[t[h].Head].Value, err |-> "nil"]

\* t.Set(key, value): the table after it
TableSet(t, key, value) ==
    LET h == TableHash(key)
        l == IF h \in DOMAIN t THEN t[h] ELSE [nodes |-> <<>>, Head |-> 0, Tail |-> 0]
    IN  [x \in DOMAIN t \cup {h} |-> IF x = h THEN LLAppend(l, value) ELSE t[x]]

\* t.Delete(key): the table after it
TableDelete(t, key) == [x \in DOMAIN t \ {TableHash(key)} |-> t[x]]

----------------------------------------------------------------------------
(* Tree of int keys and int values.  A subtree is the value of its root     *)
(* node, Nil for a nil pointer.                                             *)

\* the keys of the calls
MaxKey == 4

RECURSIVE TreeSet(_, _, _)
\* t.set(node, key, value)
TreeSet(node, key, value) ==
    IF node = Nil
    THEN [Key |-> key, Value |-> value, Left |-> Nil, Right |-> Nil]
    ELSE IF key < node.Key
    THEN [node EXCEPT !.Left = TreeSet(node.Left, key, value)]
    ELSE IF key > node.Key
    THEN [node EXCEPT !.Right = TreeSet(node.Right, key, value)]
    ELSE [node EXCEPT !.Value = value]

RECURSIVE TreeLen(_)
\* t.len(node)
TreeLen(node) ==
    IF node = Nil THEN 0 ELSE 1 + TreeLen(node.Left) + TreeLen(node.Right)

\* DeleteMin leaving the subtree as it is
TreeDeleteMinKeep(node) == node

RECURSIVE TreeDeleteMin(_)
\* t.DeleteMin(node)
TreeDeleteMin(node) ==
    IF node.Left = Nil THEN node.Right
    ELSE [node EXCEPT !.Left = TreeDeleteMin(node.Left)]

RECURSIVE TreeMin(_)
\* t.Min(node)
TreeMin(node) == IF node.Left = Nil THEN node ELSE TreeMin(node.Left)

RECURSIVE TreeDelete(_, _)
\* t.delete(node, key)
TreeDelete(node, key) ==
    IF node = Nil THEN Nil
    ELSE IF key < node.Key
    THEN [node EXCEPT !.Left = TreeDelete(node.Left, key)]
    ELSE IF key > node.Key
    THEN [node EXCEPT !.Right = TreeDelete(node.Right, key)]
    ELSE IF node.Right = Nil THEN node.Left
    ELSE IF node.Left = Nil THEN node.Right
    ELSE [TreeMin(node.Right) EXCEPT !.Right = TreeDeleteMin(node.Right),
                                     !.Left = node.Left]

RECURSIVE TreeKeys(_)
\* t.keys(node, &keys): the keys appended
TreeKeys(node) ==
    IF node = Nil THEN <<>>
    ELSE TreeKeys(node.Left) \o <<node.Key>> \o TreeKeys(node.Right)

----------------------------------------------------------------------------
(* LeakyBucket.  Time is counted in whole seconds and the rates, capacities *)
(* and volumes are whole numbers, so that the float64 arithmetic of         *)
(* AddWater is exact.  The caller and the goroutine of Start run AddWater   *)
(* without a lock: every read and every write of a field is a step of its   *)
(* own.                                                                     *)

MaxFlowRate == 1
MaxBucketCapacity == 2
MaxVolume == 1
MaxLeakTime == 2
MaxAdds == 2
MaxStops == 2

\* the locals of a goroutine that is not inside AddWater
NoLocals == [volume |-> 0, leaked |-> 0, read |-> 0, seen |-> 0]

\* where a goroutine is when it is not inside AddWater: the caller between two
\* calls, the goroutine of Start at its select
Rest(g) == IF g = "caller" THEN "idle" ELSE "select"

\* one step of lb.AddWater(volume) run by goroutine g
AddWater(g) ==
    LET loc == lbLoc[g]
    IN  \/ /\ lbPc[g] = "since"          \* elapsed, leaked
           /\ lbLoc' = [lbLoc EXCEPT ![g].leaked = (lbNow - lb.lastLeak) * lb.flowRate]
           /\ lbPc' = [lbPc EXCEPT ![g] = "leakLoad"]
           /\ UNCHANGED <<lb, lbHist>>
        \/ /\ lbPc[g] = "leakLoad"       \* lb.waterLevel -= leaked: the read
           /\ lbLoc' = [lbLoc EXCEPT ![g].read = lb.waterLevel]
           /\ lbPc' = [lbPc EXCEPT ![g] = "leakStore"]
           /\ UNCHANGED <<lb, lbHist>>
        \/ /\ lbPc[g] = "leakStore"      \* lb.waterLevel -= leaked: the write
           /\ lb' = [lb EXCEPT !.waterLevel = loc.read - loc.leaked]
           /\ lbHist' = [lbHist EXCEPT !.out = @ + loc.leaked]
           /\ lbPc' = [lbPc EXCEPT ![g] = "full"]
           /\ UNCHANGED lbLoc
        \/ /\ lbPc[g] = "full"           \* if lb.waterLevel+volume > lb.bucketCapacity
           /\ IF lb.waterLevel + loc.volume > lb.bucketCapacity
              THEN /\ lbPc' = [lbPc EXCEPT ![g] = Rest(g)]
                   /\ lbLoc' = [lbLoc EXCEPT ![g] = NoLocals]
                   /\ lbHist' = [lbHist EXCEPT !.last =
                          [g |-> g, volume |-> loc.volume, ret |-> FALSE,
                           level |-> lb.waterLevel]]
              ELSE /\ lbPc' = [lbPc EXCEPT ![g] = "addLoad"]
                   /\ lbLoc' = [lbLoc EXCEPT ![g].seen = lb.waterLevel]
                   /\ UNCHANGED lbHist
           /\ UNCHANGED lb
        \/ /\ lbPc[g] = "addLoad"        \* lb.waterLevel += volume: the read
           /\ lbLoc' = [lbLoc EXCEPT ![g].read = lb.waterLevel]
           /\ lbPc' = [lbPc EXCEPT ![g] = "addStore"]
           /\ UNCHANGED <<lb, lbHist>>
        \/ /\ lbPc[g] = "addStore"       \* lb.waterLevel += volume: the write
           /\ lb' = [lb EXCEPT !.waterLevel = loc.read + loc.volume]
           /\ lbPc' = [lbPc EXCEPT ![g] = "lastLeak"]
           /\ UNCHANGED <<lbLoc, lbHist>>
        \/ /\ lbPc[g] = "lastLeak"       \* lb.lastLeak = time.Now(); return true
           /\ lb' = [lb EXCEPT !.lastLeak = lbNow]
           /\ lbPc' = [lbPc EXCEPT ![g] = Rest(g)]
           /\ lbLoc' = [lbLoc EXCEPT ![g] = NoLocals]
           /\ lbHist' = [lbHist EXCEPT !.in = @ + loc.volume,
                                       !.last = [g |-> g, volume |-> loc.volume,
                                                 ret |-> TRUE, level |-> loc.seen]]

----------------------------------------------------------------------------
(* Specifications.  Each runs one component; the others stay idle. *)

OthersIdle(c) ==
    /\ IF c = "bloom" THEN TRUE ELSE BloomIdle
    /\ IF c = "cuckoo" THEN TRUE ELSE CuckooIdle
    /\ IF c = "hll" THEN TRUE ELSE HllIdle
    /\ IF c = "rank" THEN TRUE ELSE RankIdle
    /\ IF c = "count" THEN TRUE ELSE CountIdle
    /\ IF c = "size" THEN TRUE ELSE SizeIdle
    /\ IF c = "stack" THEN TRUE ELSE
          stack = <<>> /\ stHist = <<>> /\ stLast = <<>>
    /\ IF c = "queue" THEN TRUE ELSE
          queue = <<>> /\ quHist = <<>> /\ quLast = <<>>
    /\ IF c = "exec" THEN TRUE ELSE
          exCall = <<>> /\ exTrace = <<>>
    /\ IF c = "timeout" THEN TRUE ELSE
          toMain = "" /\ toCalls = <<>>
    /\ IF c = "bucket" THEN TRUE ELSE
          tb = <<>> /\ tbMu = 0 /\ tbNow = 0 /\ tbPc = <<>> /\ tbRets = <<>>
    /\ IF c = "list" THEN TRUE ELSE
          list = <<>> /\ llLast = <<>>
    /\ IF c = "table" THEN TRUE ELSE table = <<>> /\ htLive = <<>> /\ htLast = <<>>
    /\ IF c = "tree" THEN TRUE ELSE tree = <<>> /\ trLive = {} /\ trLast = <<>>
    /\ IF c = "leaky" THEN TRUE ELSE lb = <<>> /\ lbNow = 0 /\ lbTicker = <<>> /\ lbPc = <<>> /\ lbLoc = <<>>
          /\ lbHist = <<>>

OthersUnchanged(c) ==
    /\ IF c = "bloom" THEN TRUE ELSE UNCHANGED bloomVars
    /\ IF c = "cuckoo" THEN TRUE ELSE UNCHANGED cuckooVars
    /\ IF c = "hll" THEN TRUE ELSE UNCHANGED hllVars
    /\ IF c = "rank" THEN TRUE ELSE UNCHANGED rankVars
    /\ IF c = "count" THEN TRUE ELSE UNCHANGED <<cntH, cntRet>>
    /\ IF c = "size" THEN TRUE ELSE UNCHANGED <<szN, szRate, szRet>>
    /\ IF c = "stack" THEN TRUE ELSE UNCHANGED <<stack, stHist, stLast>>
    /\ IF c = "queue" THEN TRUE ELSE UNCHANGED <<queue, quHist, quLast>>
    /\ IF c = "exec" THEN TRUE ELSE UNCHANGED <<exCall, exTrace>>
    /\ IF c = "timeout" THEN TRUE ELSE UNCHANGED <<toMain, toCalls>>
    /\ IF c = "bucket" THEN TRUE ELSE UNCHANGED <<tb, tbMu, tbNow, tbPc, tbRets>>
    /\ IF c = "list" THEN TRUE ELSE UNCHANGED <<list, llLast>>
    /\ IF c = "table" THEN TRUE ELSE UNCHANGED <<table, htLive, htLast>>
    /\ IF c = "tree" THEN TRUE ELSE UNCHANGED <<tree, trLive, trLast>>
    /\ IF c = "leaky" THEN TRUE ELSE UNCHANGED <<lb, lbNow, lbTicker, lbPc, lbLoc, lbHist>>

InitBloom == BloomInit /\ OthersIdle("bloom")

NextBloom ==
    /\ \E item \in BloomItems :
          \/ BloomAddCall(item)
          \/ BloomContainsCall(item)
    /\ OthersUnchanged("bloom")

SpecBloom == InitBloom /\ [][NextBloom]_vars

InitCuckoo == CuckooInit /\ OthersIdle("cuckoo")

NextCuckoo ==
    /\ \E item \in CuckooItems :
          \/ CuckooAddCall(item)
          \/ CuckooContainsCall(item)
          \/ CuckooDeleteCall(item)
    /\ OthersUnchanged("cuckoo")

SpecCuckoo == InitCuckoo /\ [][NextCuckoo]_vars

InitKick == KickInit /\ OthersIdle("cuckoo")

NextKick ==
    /\ \E item \in CuckooItems : KickAddCall(item)
    /\ OthersUnchanged("cuckoo")

SpecKick == InitKick /\ [][NextKick]_vars

InitHLL == HllInit /\ OthersIdle("hll")

NextHLL ==
    /\ \/ \E m \in 0..MaxPrecisionArg : HllNewCall(m)
       \/ \E hashVal \in HllHashVals : HllAddCall(hashVal)
    /\ OthersUnchanged("hll")

SpecHLL == InitHLL /\ [][NextHLL]_vars

InitRank == RankInit /\ OthersIdle("rank")

NextRank == RankCall /\ OthersUnchanged("rank")

SpecRank == InitRank /\ [][NextRank]_vars

\* an instance NewHyperLogLog(p, hasher) returned, after some calls of Add
InitCount ==
    /\ \E p \in MinPrecision..MaxCountPrecision :
       \E regs \in CountRegisters(p) :
          cntH = [m |-> p, alphaM |-> getAlpha(p), registers |-> regs]
    /\ cntRet = Nil
    /\ OthersIdle("count")

NextCount == CountCall /\ OthersUnchanged("count")

SpecCount == InitCount /\ [][NextCount]_vars

\* the arguments of a call: numItems > 0 and 0 < falsePositiveRate < 1
InitSize ==
    /\ szN \in 1..MaxNumItems
    /\ szRate \in DOMAIN LnMicro
    /\ szRet = Nil
    /\ OthersIdle("size")

NextSize == (\E build \in Builds : SizeCall(build)) /\ OthersUnchanged("size")

SpecSize == InitSize /\ [][NextSize]_vars

\* NewStack[int]()
InitStack ==
    /\ stack = <<>>
    /\ stHist = <<>>
    /\ stLast = [op |-> "New", ret |-> 0, err |-> "nil", len |-> 0]
    /\ OthersIdle("stack")

NextStack ==
    /\ \/ \E v \in Values :
             /\ Len(stHist) < MaxOps
             /\ stack' = StackPush(stack, v)
             /\ stHist' = Append(stHist, v)
             /\ stLast' = [op |-> "Push", ret |-> 0, err |-> "nil", len |-> Len(stack)]
       \/ LET r == StackPop(stack)
          IN  /\ r.err = "nil" => Len(stHist) < MaxOps
              /\ stack' = r.s
              /\ stHist' = IF r.err = "nil" THEN Append(stHist, 0) ELSE stHist
              /\ stLast' = [op |-> "Pop", ret |-> r.ret, err |-> r.err, len |-> Len(stack)]
       \/ LET r == StackPeek(stack)
          IN  /\ stack' = r.s
              /\ stLast' = [op |-> "Peek", ret |-> r.ret, err |-> r.err, len |-> Len(stack)]
              /\ UNCHANGED stHist
    /\ OthersUnchanged("stack")

SpecStack == InitStack /\ [][NextStack]_vars

\* NewQueue[int]()
InitQueue ==
    /\ queue = <<>>
    /\ quHist = <<>>
    /\ quLast = [op |-> "New", ret |-> 0, err |-> "nil", before |-> <<>>]
    /\ OthersIdle("queue")

NextQueue ==
    /\ \/ \E v \in Values :
             /\ Len(quHist) < MaxOps
             /\ queue' = QueuePush(queue, v)
             /\ quHist' = Append(quHist, v)
             /\ quLast' = [op |-> "Push", ret |-> 0, err |-> "nil", before |-> queue]
       \/ LET r == QueuePop(queue)
          IN  /\ r.err = "nil" => Len(quHist) < MaxOps
              /\ queue' = r.s
              /\ quHist' = IF r.err = "nil" THEN Append(quHist, 0) ELSE quHist
              /\ quLast' = [op |-> "Pop", ret |-> r.ret, err |-> r.err, before |-> queue]
       \/ LET r == QueuePeek(queue)
          IN  /\ queue' = r.s
              /\ quLast' = [op |-> "Peek", ret |-> r.ret, err |-> r.err, before |-> queue]
              /\ UNCHANGED quHist
    /\ OthersUnchanged("queue")

SpecQueue == InitQueue /\ [][NextQueue]_vars

\* executor := Executor[int]{}
InitExec ==
    /\ exCall = [op |-> "None", outs |-> <<>>, maxRetry |-> 0, duration |-> 0,
                 backOff |-> 0]
    /\ exTrace = <<>>
    /\ OthersIdle("exec")

NextExec ==
    /\ \/ \E out \in Outcomes :
             /\ exCall' = [op |-> "Execute", outs |-> <<out>>, maxRetry |-> 0,
                           duration |-> 0, backOff |-> 0]
             /\ exTrace' = Execute(out)
       \/ \E r \in 0..MaxRetryArg, d \in Durations :
          \E outs \in [1..(r + 1) -> Outcomes] :
             /\ exCall' = [op |-> "ExecuteRetry", outs |-> outs, maxRetry |-> r,
                           duration |-> d, backOff |-> 0]
             /\ exTrace' = ExecuteRetry(outs, 1, d, r)
       \/ \E r \in 0..MaxRetryArg, d \in Durations, b \in Durations :
          \E outs \in [1..(r + 1) -> Outcomes] :
             /\ exCall' = [op |-> "ExecuteRetryBackOff", outs |-> outs,
                           maxRetry |-> r, duration |-> d, backOff |-> b]
             /\ exTrace' = ExecuteRetryBackOff(outs, 1, d, r, b)
    /\ OthersUnchanged("exec")

SpecExec == InitExec /\ [][NextExec]_vars

\* executor := Executor[int]{}, no call made yet
InitTimeout ==
    /\ toMain = "idle"
    /\ toCalls = <<>>
    /\ OthersIdle("timeout")

NextTimeout ==
    /\ \/ \E out \in Outcomes : ToCall(out)
       \/ \E c \in DOMAIN toCalls : ToFn(c) \/ ToOnError(c) \/ ToOnSuccess(c)
       \/ ToDone
       \/ ToTimeout
    /\ OthersUnchanged("timeout")

SpecTimeout == InitTimeout /\ [][NextTimeout]_vars

\* the workers and the callers are scheduled as long as one of them can take a
\* step: fn and the callbacks return
SpecTimeoutFair == SpecTimeout /\ WF_vars(NextTimeout)

\* NewTokenBucket(capacity, rate), rate at least one tick
InitBucket ==
    /\ \E capacity \in 0..MaxCapacity, rate \in 1..MaxRate :
          tb = [tokens |-> capacity, capacity |-> capacity, rate |-> rate,
                lastTokenTime |-> 0]
    /\ tbMu = 0
    /\ tbNow = 0
    /\ tbPc = [g \in Goroutines |-> "idle"]
    /\ tbRets = [t |-> 0, f |-> 0]
    /\ OthersIdle("bucket")

NextBucket ==
    /\ \/ \E g \in Goroutines :
             \* tb.mu.Lock()
             \/ /\ tbPc[g] = "idle"
                /\ tbMu = 0
                /\ tbRets.t + tbRets.f + Cardinality({h \in Goroutines : tbPc[h] # "idle"})
                      < MaxTakes
                /\ tbMu' = g
                /\ tbPc' = [tbPc EXCEPT ![g] = "locked"]
                /\ UNCHANGED <<tb, tbNow, tbRets>>
             \* the refill, reading the clock
             \/ /\ tbPc[g] = "locked"
                /\ tb' = Refill(tb, tbNow)
                /\ tbPc' = [tbPc EXCEPT ![g] = "refilled"]
                /\ UNCHANGED <<tbMu, tbNow, tbRets>>
             \* the take, reading the clock again, the return and the deferred
             \* tb.mu.Unlock()
             \/ /\ tbPc[g] = "refilled"
                /\ LET r == Take(tb, tbNow)
                   IN  /\ tb' = r.b
                       /\ tbRets' = IF r.ret THEN [tbRets EXCEPT !.t = @ + 1]
                                    ELSE [tbRets EXCEPT !.f = @ + 1]
                /\ tbMu' = 0
                /\ tbPc' = [tbPc EXCEPT ![g] = "idle"]
                /\ UNCHANGED tbNow
       \* time passes
       \/ /\ tbNow < MaxTime
          /\ tbNow' = tbNow + 1
          /\ UNCHANGED <<tb, tbMu, tbPc, tbRets>>
    /\ OthersUnchanged("bucket")

SpecBucket == InitBucket /\ [][NextBucket]_vars

\* NewLikedList[int]()
InitList ==
    /\ list = [nodes |-> <<>>, Head |-> 0, Tail |-> 0]
    /\ llLast = [op |-> "New", v |-> 0, n |-> 0, err |-> "nil", ret |-> 0, len |-> 0]
    /\ OthersIdle("list")

NextList ==
    /\ LET len  == LLLen(list, list.Head)
           room == Len(list.nodes) < MaxNodes
       IN  \/ \E v \in Values :
                 /\ room
                 /\ list' = LLAppend(list, v)
                 /\ llLast' = [op |-> "Append", v |-> v, n |-> 0, err |-> "nil",
                               ret |-> 0, len |-> len]
           \/ \E v \in Values :
                 /\ room
                 /\ list' = LLPrepend(list, v)
                 /\ llLast' = [op |-> "Prepend", v |-> v, n |-> 0, err |-> "nil",
                               ret |-> 0, len |-> len]
           \/ \E v \in Values, n \in -1..(len + 1) :
                 /\ room
                 /\ LET r == LLInsert(list, n, v)
                    IN  /\ list' = r.l
                        /\ llLast' = [op |-> "Insert", v |-> v, n |-> n,
                                      err |-> r.err, ret |-> 0, len |-> len]
           \/ \E n \in -1..len :
                 LET r == LLRemove(list, n)
                 IN  /\ list' = r.l
                     /\ llLast' = [op |-> "Remove", v |-> 0, n |-> n,
                                   err |-> r.err, ret |-> r.ret, len |-> len]
           \* l.Clear()
           \/ /\ list' = [list EXCEPT !.Head = 0, !.Tail = 0]
              /\ llLast' = [op |-> "Clear", v |-> 0, n |-> 0, err |-> "nil",
                            ret |-> 0, len |-> len]
    /\ OthersUnchanged("list")

SpecList == InitList /\ [][NextList]_vars

\* NewHashTable[string, int](fnv.New64a())
InitTable ==
    /\ table = <<>>
    /\ htLive = <<>>
    /\ htLast = [op |-> "New", key |-> <<>>, ret |-> 0, err |-> "nil"]
    /\ OthersIdle("table")

NextTable ==
    /\ \E key \in TableKeys :
          \/ \E value \in Values :
                /\ TableHash(key) \in DOMAIN table =>
                      Len(table[TableHash(key)].nodes) < MaxChain
                /\ table' = TableSet(table, key, value)
                /\ htLive' = [k \in DOMAIN htLive \cup {key} |->
                                 IF k = key THEN value ELSE htLive[k]]
                /\ htLast' = [op |-> "Set", key |-> key, ret |-> 0, err |-> "nil"]
          \/ LET r == TableGet(table, key)
             IN  /\ htLast' = [op |-> "Get", key |-> key, ret |-> r.ret, err |-> r.err]
                 /\ UNCHANGED <<table, htLive>>
          \/ /\ table' = TableDelete(table, key)
             /\ htLive' = [k \in DOMAIN htLive \ {key} |-> htLive[k]]
             /\ htLast' = [op |-> "Delete", key |-> key, ret |-> 0, err |-> "nil"]
    /\ OthersUnchanged("table")

SpecTable == InitTable /\ [][NextTable]_vars

\* NewTree[int, int]()
InitTree ==
    /\ tree = Nil
    /\ trLive = {}
    /\ trLast = [op |-> "New", key |-> 0, before |-> Nil]
    /\ OthersIdle("tree")

NextTree ==
    /\ \E key \in 1..MaxKey :
          \/ \E value \in Values :
                /\ tree' = TreeSet(tree, key, value)
                /\ trLive' = trLive \cup {key}
                /\ trLast' = [op |-> "Set", key |-> key, before |-> tree]
          \/ /\ tree' = TreeDelete(tree, key)
             /\ trLive' = trLive \ {key}
             /\ trLast' = [op |-> "Delete", key |-> key, before |-> tree]
    /\ OthersUnchanged("tree")

SpecTree == InitTree /\ [][NextTree]_vars

\* lb := NewLeakyBucket(flowRate, bucketCapacity)
InitLeaky ==
    /\ \E flowRate \in 1..MaxFlowRate, bucketCapacity \in 1..MaxBucketCapacity :
          lb = [flowRate |-> flowRate, bucketCapacity |-> bucketCapacity,
                waterLevel |-> 0, lastLeak |-> 0]
    /\ lbNow = 0
    /\ lbTicker = [C |-> FALSE, on |-> TRUE]
    /\ lbPc = [g \in {"caller", "ticker"} |-> IF g = "caller" THEN "idle" ELSE "none"]
    /\ lbLoc = [g \in {"caller", "ticker"} |-> NoLocals]
    /\ lbHist = [in |-> 0, out |-> 0, adds |-> 0, stops |-> 0,
                 last |-> [g |-> "", volume |-> 0, ret |-> FALSE, level |-> 0]]
    /\ OthersIdle("leaky")

NextLeaky ==
    /\ \* the caller calls lb.AddWater(volume)
       \/ \E volume \in 0..MaxVolume :
             /\ lbPc["caller"] = "idle"
             /\ lbHist.adds < MaxAdds
             /\ lbPc' = [lbPc EXCEPT !["caller"] = "since"]
             /\ lbLoc' = [lbLoc EXCEPT !["caller"].volume = volume]
             /\ lbHist' = [lbHist EXCEPT !.adds = @ + 1]
             /\ UNCHANGED <<lb, lbNow, lbTicker>>
       \* a step of AddWater
       \/ \E g \in {"caller", "ticker"} :
             AddWater(g) /\ UNCHANGED <<lbNow, lbTicker>>
       \* the caller calls lb.Start()
       \/ /\ lbPc["caller"] = "idle"
          /\ lbPc["ticker"] = "none"
          /\ lbPc' = [lbPc EXCEPT !["ticker"] = "select"]
          /\ UNCHANGED <<lb, lbNow, lbTicker, lbLoc, lbHist>>
       \* case <-lb.flowTicker.C: lb.AddWater(lb.flowRate)
       \/ /\ lbPc["ticker"] = "select"
          /\ lbTicker.C
          /\ lbTicker' = [lbTicker EXCEPT !.C = FALSE]
          /\ lbPc' = [lbPc EXCEPT !["ticker"] = "since"]
          /\ lbLoc' = [lbLoc EXCEPT !["ticker"].volume = lb.flowRate]
          /\ UNCHANGED <<lb, lbNow, lbHist>>
       \* the caller calls lb.Stop(): lb.stopChan <- struct{}{}
       \/ /\ lbPc["caller"] = "idle"
          /\ lbHist.stops < MaxStops
          /\ lbPc' = [lbPc EXCEPT !["caller"] = "stop"]
          /\ lbHist' = [lbHist EXCEPT !.stops = @ + 1]
          /\ UNCHANGED <<lb, lbNow, lbTicker, lbLoc>>
       \* case <-lb.stopChan: lb.flowTicker.Stop(); return, and Stop returns
       \/ /\ lbPc["ticker"] = "select"
          /\ lbPc["caller"] = "stop"
          /\ lbPc' = [g \in {"caller", "ticker"} |->
                         IF g = "caller" THEN "idle" ELSE "exited"]
          /\ lbTicker' = [lbTicker EXCEPT !.on = FALSE]
          /\ UNCHANGED <<lb, lbNow, lbLoc, lbHist>>
       \* a second passes: the ticker sends a tick unless it is stopped
       \/ /\ lbNow < MaxLeakTime
          /\ lbNow' = lbNow + 1
          /\ lbTicker' = [lbTicker EXCEPT !.C = @ \/ lbTicker.on]
          /\ UNCHANGED <<lb, lbPc, lbLoc, lbHist>>
    /\ OthersUnchanged("leaky")

SpecLeaky == InitLeaky /\ [][NextLeaky]_vars

\* every goroutine that can take a step is scheduled, and a select with a ready
\* case takes one
SpecLeakyFair == SpecLeaky /\ WF_vars(NextLeaky)

----------------------------------------------------------------------------
(* Claims *)

\* C1: BloomFilter has no false negatives: in every state reached through Add
\* calls on a filter with bitset size m > 0, Contains(x) is true for every item
\* x that was passed to Add earlier.
C1_NoFalseNegatives ==
    \A x \in bfAdded : BloomContains(bitset, bfK, x)

\* C1 witness: two different items were added to a filter that probes at least
\* two bits, and a third item is still reported absent.
C1_Witness ==
    /\ Cardinality(bfAdded) >= 2
    /\ bfK >= 2
    /\ \E y \in BloomItems \ bfAdded : ~BloomContains(bitset, bfK, y)

\* the buckets of the Cuckoo filter that hold a fingerprint
Occupied == {i \in 1..cf.Size : cf.BucketArr[i] # Nil}

\* C2: CuckooFilter: in every state reached through Add and Delete, when Add(item)
\* has just returned true, Contains(item) is true.
C2_AddThenContains ==
    (cfLast.op = "Add" /\ cfLast.ret) => Contains(cf, cfLast.item)

\* C2 witness: an Add that was not a repetition has returned true in a filter
\* that then holds two fingerprints.
C2_Witness ==
    /\ cfLast.op = "Add" /\ cfLast.ret /\ ~cfLast.repeat
    /\ Cardinality(Occupied) >= 2

\* C3: CuckooFilter never returns a false negative: every item whose Add returned
\* true and that was not deleted since is contained, whatever Add and Delete
\* calls were made for other items.
C3_NoFalseNegatives ==
    \A x \in cfLive : Contains(cf, x)

\* C4: CuckooFilter: in every state reached through Add and Delete, when
\* Delete(item) has just returned true, Contains(item) is false.
C4_DeleteThenAbsent ==
    (cfLast.op = "Delete" /\ cfLast.ret) => ~Contains(cf, cfLast.item)

\* C4 witness: a Delete has returned true and another fingerprint is left.
C4_Witness ==
    /\ cfLast.op = "Delete" /\ cfLast.ret
    /\ Occupied # {}

\* C5: CuckooFilter.Add is idempotent: an Add(x) that follows an Add(x) returns
\* true, leaves every bucket as it was, and Contains(x) stays true.
C5_AddIdempotent ==
    [][(cfLast.op = "Add" /\ cfLast'.op = "Add" /\ cfLast'.item = cfLast.item)
          => /\ cfLast'.ret
             /\ cf' = cf
             /\ Contains(cf', cfLast'.item)]_vars

\* C5 witness: the same item was added twice in a row, into a filter that
\* holds another fingerprint too.
C5_Witness ==
    /\ cfLast.op = "Add" /\ cfLast.repeat /\ cfLast.ret
    /\ Cardinality(Occupied) >= 2

\* C6: CuckooFilter.Delete of an absent item is a reported no-op: when
\* Contains(item) is false, Delete(item) returns false and leaves every bucket
\* unchanged.
C6_DeleteAbsent ==
    [][(cfLast'.op = "Delete" /\ ~Contains(cf, cfLast'.item))
          => (~cfLast'.ret /\ cf' = cf)]_vars

\* C6 witness: a Delete has returned false in a filter that holds a fingerprint
\* in the second candidate bucket of the item.
C6_Witness ==
    /\ cfLast.op = "Delete" /\ ~cfLast.ret
    /\ hash(cf, cfLast.item, hash(cf, cfLast.item, 0)) + 1 \in Occupied

\* C7: CuckooFilter.Add terminates on any bucket contents: it makes at most
\* maxKicks (500) eviction iterations, and it returns false exactly when it has
\* used them all, which is exactly when the item is left unplaced.
C7_AddBounded ==
    cfLast.op = "Add" =>
        /\ cfLast.kicks <= 500
        /\ ~cfLast.ret <=> cfLast.kicks = 500
        /\ ~cfLast.ret <=> ~Contains(cf, cfLast.item)

\* C7 witness: an Add has used all its iterations and returned false.
C7_Witness ==
    cfLast.op = "Add" /\ ~cfLast.ret /\ cfLast.kicks = 500

\* C8: NewHyperLogLog(p, hasher) returns (nil, error) exactly when p < 4 or
\* p > 16; for p in 4..16 it returns no error and an instance with 2^p
\* registers, all zero.
C8_NewRange ==
    hllLast.op = "New" =>
        /\ hllLast.err <=> (hllLast.m < 4 \/ hllLast.m > 16)
        /\ hllLast.err => hll = Nil
        /\ ~hllLast.err =>
              /\ hll # Nil
              /\ Len(hll.registers) = 2 ^ hllLast.m
              /\ \A i \in 1..Len(hll.registers) : hll.registers[i] = 0

\* C8 witness: the constructor has succeeded at precision 16.
C8_Witness ==
    hllLast.op = "New" /\ hllLast.m = 16 /\ ~hllLast.err /\ hll # Nil

\* the largest element of a non-empty set of numbers
MaxOf(S) == CHOOSE x \in S : \A y \in S : y <= x

\* the smallest element of a non-empty set of numbers
MinOf(S) == CHOOSE x \in S : \A y \in S : x <= y

\* the <<register index, rank>> of every item added so far
Observed == {<<AddIndex(hv, hll.m), AddRank(hv, hll.m)>> : hv \in hllAdded}

RECURSIVE WithMaxAt(_, _, _)
\* regs with, at every index of idxs, the maximum rank obs holds for that index
WithMaxAt(regs, idxs, obs) ==
    IF idxs = {} THEN regs
    ELSE LET k == CHOOSE x \in idxs : TRUE
         IN  WithMaxAt([regs EXCEPT ![k + 1] = MaxOf({o[2] : o \in {x \in obs : x[1] = k}})],
                       idxs \ {k}, obs)

\* C9: HyperLogLog: after any sequence of Add calls each register equals the
\* maximum rank among the items added so far that map to it, and 0 if there is
\* none.  (The registers are thus a function of the set of items added, which
\* only grows: no Add decreases a register, and adding an item again changes
\* nothing.)
C9_RegistersMaxRank ==
    hll # Nil =>
        LET obs == Observed
        IN  hll.registers =
               WithMaxAt([i \in 1..Len(hll.registers) |-> 0], {o[1] : o \in obs}, obs)

\* C9 witness: an item was added whose rank is below the rank its register
\* already held.
C9_Witness ==
    /\ hll # Nil
    /\ hllLast.op = "Add"
    /\ hllLast.rank < hll.registers[hllLast.index + 1]

\* the 1-based positions of the set bits among the 64-p bits above the index
UpperBits == {j - rkM + 1 : j \in {x \in rkHash : x >= rkM}}

\* C10 as stated: the rank is the 1-based position of the first set bit of the
\* 64-p bits above the register index, and lies in 1..64-p (64-p when all of
\* those bits are zero).
C10_RankCapped ==
    rkRank # 0 =>
        /\ rkRank \in 1..(64 - rkM)
        /\ rkRank = IF UpperBits = {} THEN 64 - rkM ELSE MinOf(UpperBits)

\* C10, amended: the rank is the 1-based position of the first set bit of the
\* 64-p bits above the register index, in 1..64-p, when one of them is set, and
\* 64-p+1 when all of them are zero.
C10_RankFirstSetBit ==
    rkRank # 0 =>
        /\ rkRank \in 1..(64 - rkM + 1)
        /\ rkRank = IF UpperBits = {} THEN 64 - rkM + 1 ELSE MinOf(UpperBits)

\* C10 witness: the rank of a hash value with no bit set above the index.
C10_Witness ==
    rkRank # 0 /\ UpperBits = {} /\ rkHash # {}

\* C11: the raw estimate Count computes is alpha * m^2 / sum, m the number of
\* registers and sum the sum over the registers of 2^(-register)
C11_RawEstimate ==
    cntRet # Nil =>
        cntRet.raw = RawEstimateStandard(cntH.alphaM, Len(cntH.registers), cntRet.sum)

\* the k probe positions of item, as indexes of bitset
Probes(item) == {BloomHash(bitset, item, seed) + 1 : seed \in 0..(bfK - 1)}

\* C12: the bits are monotonic: a step never clears a bit, Add(item) changes
\* bits only at the k probe positions of item, and Contains changes no bit
C12_BitsMonotonic ==
    [][/\ \A i \in DOMAIN bitset : bitset[i] => bitset'[i]
       /\ bfLast'.op = "Add" =>
             \A i \in DOMAIN bitset :
                bitset'[i] # bitset[i] => i \in Probes(bfLast'.item)
       /\ bfLast'.op = "Contains" => bitset' = bitset]_vars

\* an Add has left set a bit of an earlier Add outside its own probe positions
C12_Witness ==
    /\ bfLast.op = "Add"
    /\ \E i \in Probes(bfLast.item) : bitset[i]
    /\ \E i \in DOMAIN bitset : bitset[i] /\ i \notin Probes(bfLast.item)

\* C13: CalculateBloomFilterBitSetSize(n, p) returns the positive bitset size
\* m = -n*ln(p)/(ln 2)^2 (958 for n = 100, p = 0.01)
C13_PositiveSize ==
    szRet # Nil =>
        /\ ~szRet.wrapped
        /\ szRet.mag = (szN * (-LnMicro[szRate])) \div Ln2SqMicro
        /\ (szN = 100 /\ szRate = "0.01") => szRet.mag = 958

RECURSIVE LastUnpopped(_, _, _)
\* the most recent value of a history (a value for a push, 0 for a pop), below
\* position i, that no later pop has removed; skip counts the pops to match
LastUnpopped(hist, i, skip) ==
    IF i = 0 THEN 0
    ELSE IF hist[i] = 0 THEN LastUnpopped(hist, i - 1, skip + 1)
    ELSE IF skip > 0 THEN LastUnpopped(hist, i - 1, skip - 1)
    ELSE hist[i]

\* C14: Pop returns the most recently pushed value not popped yet and makes
\* Len one less; on an empty stack Pop and Peek return a StackError and leave
\* the stack empty
C14_StackLIFO ==
    /\ (stLast.op = "Pop" /\ stLast.len > 0) =>
          /\ stLast.err = "nil"
          /\ stLast.ret = LastUnpopped(stHist, Len(stHist) - 1, 0)
          /\ Len(stack) = stLast.len - 1
    /\ (stLast.op \in {"Pop", "Peek"} /\ stLast.len = 0) =>
          /\ stLast.err = "StackError"
          /\ stack = <<>>

\* a Pop, after an earlier Pop, has returned a value other than the one below it
C14_Witness ==
    /\ stLast.op = "Pop"
    /\ stLast.err = "nil"
    /\ \E i \in 1..(Len(stHist) - 1) : stHist[i] = 0
    /\ Len(stack) > 0
    /\ stack[Len(stack)] # stLast.ret

\* the oldest value of a history (a value for a push, 0 for a pop) that its
\* pops have not removed: the pushed value number (pops + 1)
OldestUnpopped(hist) ==
    LET pushed == SelectSeq(hist, LAMBDA e : e # 0)
        popped == Len(hist) - Len(pushed)
    IN  pushed[popped + 1]

\* C15: Pop returns the oldest pushed value not popped yet and makes Len one
\* less, Peek returns that value and leaves the queue as it was, and Pop on an
\* empty queue returns a QueueError and leaves it empty
C15_QueueFIFO ==
    /\ (quLast.op = "Pop" /\ quLast.before # <<>>) =>
          /\ quLast.err = "nil"
          /\ quLast.ret = OldestUnpopped(SubSeq(quHist, 1, Len(quHist) - 1))
          /\ Len(queue) = Len(quLast.before) - 1
    /\ (quLast.op = "Peek" /\ quLast.before # <<>>) =>
          /\ quLast.err = "nil"
          /\ quLast.ret = OldestUnpopped(quHist)
          /\ queue = quLast.before
    /\ (quLast.op = "Pop" /\ quLast.before = <<>>) =>
          /\ quLast.err = "QueueError"
          /\ queue = <<>>

\* a Pop, after an earlier Pop, has returned a value other than the newest one
C15_Witness ==
    /\ quLast.op = "Pop"
    /\ quLast.err = "nil"
    /\ \E i \in 1..(Len(quHist) - 1) : quHist[i] = 0
    /\ Len(queue) > 0
    /\ queue[Len(queue)] # quLast.ret

\* the callbacks of a trace, in order
Callbacks(trace) == SelectSeq(trace, LAMBDA e : e.ev \in {"onError", "onSuccess"})

\* C16: Execute invokes exactly one callback: onError(err) when fn returns a
\* non-nil error, onSuccess(value) when it returns a nil error
C16_OneCallback ==
    exCall.op = "Execute" =>
        Callbacks(exTrace) =
            IF exCall.outs[1].err # 0
            THEN <<Event("onError", exCall.outs[1].err)>>
            ELSE <<Event("onSuccess", exCall.outs[1].value)>>

\* the attempts of the last call that return a nil error
Succeeding == {i \in DOMAIN exCall.outs : exCall.outs[i].err = 0}

\* C17: ExecuteRetry and ExecuteRetryBackOff with maxRetry = r invoke fn at most
\* r+1 times and stop at the first nil error; onSuccess is called exactly once,
\* with that attempt's value, if an attempt succeeds and never otherwise, and
\* onError exactly once, only when all r+1 attempts fail
C17_RetryCallbacks ==
    exCall.op \in {"ExecuteRetry", "ExecuteRetryBackOff"} =>
        LET calls == Len(SelectSeq(exTrace, LAMBDA e : e.ev = "fn"))
        IN  /\ calls <= exCall.maxRetry + 1
            /\ IF Succeeding # {}
               THEN LET first == CHOOSE i \in Succeeding :
                                    \A j \in Succeeding : i <= j
                    IN  /\ calls = first
                        /\ Callbacks(exTrace) =
                              <<Event("onSuccess", exCall.outs[first].value)>>
               ELSE /\ calls = exCall.maxRetry + 1
                    /\ Len(Callbacks(exTrace)) = 1
                    /\ Callbacks(exTrace)[1].ev = "onError"

\* C18: a call of ExecuteWithTimeout delivers exactly one outcome under every
\* interleaving of its worker and the timer, and no onSuccess after the
\* timeout error
C18_OneOutcome ==
    \A c \in DOMAIN toCalls :
        LET cb == Callbacks(toCalls[c].trace)
        IN  /\ Len(cb) <= 1
            /\ (c < Len(toCalls) \/ toMain = "idle") => Len(cb) = 1
            /\ \A i \in DOMAIN cb, j \in DOMAIN cb :
                  (i < j /\ cb[i] = Event("onError", TimeoutError)) =>
                      cb[j].ev # "onSuccess"

\* C19: tokens stays within 0..capacity, and while less than one refill
\* interval has passed since NewTokenBucket(c, rate), c of the TakeToken calls
\* made (all of them when fewer than c) have returned true and the others false
C19_TokensBounded ==
    /\ 0 <= tb.tokens
    /\ tb.tokens <= tb.capacity
    /\ tbNow < tb.rate =>
          tbRets.t = IF tbRets.t + tbRets.f < tb.capacity
                     THEN tbRets.t + tbRets.f ELSE tb.capacity

\* within the first interval, after some time, both goroutines have called,
\* all tokens were taken and a further call was refused
C19_Witness ==
    /\ 0 < tbNow
    /\ tbNow < tb.rate
    /\ tb.capacity = MaxCapacity
    /\ tbRets.t = tb.capacity
    /\ tbRets.f > 0
    /\ \E g \in Goroutines : tbPc[g] = "refilled"

\* C20: after Append(v), Len has grown by one and Get(Len-1) returns v, and
\* Tail is the last node reachable from Head
C20_AppendAtEnd ==
    LET len == LLLen(list, list.Head)
    IN  /\ llLast.op = "Append" =>
              /\ len = llLast.len + 1
              /\ LLGet(list, len - 1) = [ret |-> llLast.v, err |-> "nil"]
        /\ list.Head # 0 => list.Tail = Walk(list, list.Head, len - 1)

\* C21: Get(k) returns the value of the most recent Set(k, v) when k is set and
\* not deleted since, and the zero value with a HashTableError otherwise
C21_GetLatest ==
    htLast.op = "Get" =>
        IF htLast.key \in DOMAIN htLive
        THEN htLast.err = "nil" /\ htLast.ret = htLive[htLast.key]
        ELSE htLast.err = "HashTableError" /\ htLast.ret = 0

\* C22: Keys() returns exactly the keys set and not deleted afterwards, each
\* once, in strictly ascending order, and Len() is their number
C22_KeysSorted ==
    LET keys == TreeKeys(tree)
    IN  /\ {keys[i] : i \in DOMAIN keys} = trLive
        /\ \A i \in DOMAIN keys, j \in DOMAIN keys : i < j => keys[i] < keys[j]
        /\ Len(keys) = Cardinality(trLive)
        /\ TreeLen(tree) = Cardinality(trLive)

\* a Delete has removed a node with two children whose successor was not its
\* right child
C22_Witness ==
    /\ trLast.op = "Delete"
    /\ trLast.before # Nil
    /\ trLast.before.Key = trLast.key
    /\ trLast.before.Left # Nil
    /\ trLast.before.Right # Nil
    /\ trLast.before.Right.Left # Nil
    /\ Cardinality(trLive) = MaxKey - 1

\* both candidate buckets of item hold a fingerprint other than item's
BothOccupied(c, item) ==
    LET hash1 == hash(c, item, 0)
        hash2 == hash(c, item, hash1)
    IN  /\ c.BucketArr[hash1 + 1] # Nil
        /\ c.BucketArr[hash1 + 1][1] # fingerprint(c, item)
        /\ c.BucketArr[hash2 + 1] # Nil
        /\ c.BucketArr[hash2 + 1][1] # fingerprint(c, item)

\* C23: an Add that has made one eviction has put item's fingerprint in
\* bucket hash1
C23_SwapHash1 ==
    (cfLast.op = "Add" /\ cfLast.kicks = 1) =>
        cf.BucketArr[hash(cf, cfLast.item, 0) + 1] =
            Bucket(fingerprint(cf, cfLast.item))

\* C23, amended: Add(item) evicts exactly when both candidate buckets hold
\* fingerprints other than item's; the eviction swaps the carried fingerprint
\* with the occupant of bucket hash2 = hash(item, hash1), carries the displaced
\* fingerprint on and leaves bucket hash1 as it was
C23_SwapHash2 ==
    [][cfLast'.op = "Add" =>
          LET item  == cfLast'.item
              hash1 == hash(cf, item, 0)
              hash2 == hash(cf, item, hash1)
          IN  /\ BothOccupied(cf, item) <=> cfLast'.kicks >= 1
              /\ cfLast'.kicks = 1 =>
                    /\ cf'.BucketArr[hash2 + 1] = Bucket(fingerprint(cf, item))
                    /\ cfLast'.carried = cf.BucketArr[hash2 + 1][1]
                    /\ hash1 # hash2 =>
                          cf'.BucketArr[hash1 + 1] = cf.BucketArr[hash1 + 1]]_vars

\* an Add has returned after one eviction, made in a bucket other than hash1
C23_Witness ==
    /\ cfLast.op = "Add"
    /\ cfLast.kicks = 1
    /\ cfLast.ret
    /\ hash(cf, cfLast.item, 0) # hash(cf, cfLast.item, hash(cf, cfLast.item, 0))
    /\ cf.BucketArr[hash(cf, cfLast.item, hash(cf, cfLast.item, 0)) + 1] =
          Bucket(fingerprint(cf, cfLast.item))

\* C24: Insert(n, v) with 0 <= n <= Len returns nil, grows Len by one and puts
\* v at index n; with any other n it returns a LikedListError and keeps Len
C24_InsertTotal ==
    llLast.op = "Insert" =>
        IF 0 <= llLast.n /\ llLast.n <= llLast.len
        THEN /\ llLast.err = "nil"
             /\ LLLen(list, list.Head) = llLast.len + 1
             /\ LLGet(list, llLast.n) = [ret |-> llLast.v, err |-> "nil"]
        ELSE /\ llLast.err = "LikedListError"
             /\ LLLen(list, list.Head) = llLast.len

\* C25: in every state reached from NewCuckooFilter through Add and Delete,
\* every occupied bucket i holds the fingerprint i, and no Add has made an
\* eviction swap
C25_BucketHoldsIndex ==
    /\ \A i \in 1..Len(cf.BucketArr) :
          cf.BucketArr[i] # Nil => cf.BucketArr[i] = Bucket(i - 1)
    /\ cfLast.op = "Add" => cfLast.kicks = 0

\* an item was added whose first candidate bucket is that of another item added
\* before, in a filter of two occupied buckets or more
C25_Witness ==
    /\ cfLast.op = "Add"
    /\ Cardinality(Occupied) >= 2
    /\ \E other \in cfLive \ {cfLast.item} :
          hash(cf, other, 0) = hash(cf, cfLast.item, 0)

\* C26: Add returns true for every item in every state reached from
\* NewCuckooFilter through Add and Delete
C26_AddTrue == cfLast.op = "Add" => cfLast.ret

\* an Add has returned true with more items added than the filter has buckets
C26_Witness ==
    /\ cfLast.op = "Add"
    /\ cfLast.ret
    /\ Len(cf.BucketArr) >= 2
    /\ Cardinality(cfLive) > Len(cf.BucketArr)

\* C27: after sequential AddWater calls, the ticker goroutine never started,
\* 0 <= waterLevel <= bucketCapacity, and the last AddWater returned false,
\* leaving the leaked-down level, exactly when that level plus the volume
\* exceeds bucketCapacity
C27_LevelInRange ==
    (lbPc["ticker"] = "none" /\ lbPc["caller"] = "idle") =>
        /\ 0 <= lb.waterLevel
        /\ lb.waterLevel <= lb.bucketCapacity
        /\ lbHist.last.g = "caller" =>
              /\ lbHist.last.ret <=>
                    lbHist.last.level + lbHist.last.volume <= lb.bucketCapacity
              /\ lb.waterLevel = IF lbHist.last.ret
                                 THEN lbHist.last.level + lbHist.last.volume
                                 ELSE lbHist.last.level

\* the caller and the goroutine of Start are both outside AddWater
LeakyAtRest ==
    /\ lbPc["caller"] \in {"idle", "stop"}
    /\ lbPc["ticker"] \in {"none", "select", "exited"}

\* C28: once Start has been called, waterLevel never exceeds bucketCapacity,
\* and with no AddWater in progress waterLevel is not less than the sum of the
\* volumes accepted less the amounts leaked
C28_NoOverflowNoLoss ==
    lbPc["ticker"] # "none" =>
        /\ lb.waterLevel <= lb.bucketCapacity
        /\ LeakyAtRest => lb.waterLevel >= lbHist.in - lbHist.out

\* C29: every call of Stop returns, and once the ticker is stopped the
\* goroutine of Start has returned
C29_StopReturns ==
    /\ (lbPc["caller"] = "stop") ~> (lbPc["caller"] = "idle")
    /\ [](~lbTicker.on => lbPc["ticker"] = "exited")

\* C30: the worker goroutine of every call of ExecuteWithTimeout eventually
\* returns
C30_WorkerExits ==
    \A c \in 1..MaxCalls :
        (Len(toCalls) >= c) ~> (Len(toCalls) >= c /\ toCalls[c].pc = "exit")

====
